---- MODULE Spec2Model ----
(***************************************************************************)
(* Model of src/services/builder-app.service.ts (BuilderAppService).       *)
(*                                                                         *)
(* JavaScript strings whose content is computed (split, parsed, upper- or  *)
(* lower-cased, concatenated) are sequences of one-character strings, so   *)
(* that every conversion is carried out character by character.  Fixed     *)
(* enumeration literals (kind, apiVersion, type) stay TLA+ strings.        *)
(***************************************************************************)
EXTENDS Integers, Sequences, FiniteSets, TLC

VARIABLES config, pc, op, portSpec, result, error, warnings, randomLog

vars == <<config, pc, op, portSpec, result, error, warnings, randomLog>>

-----------------------------------------------------------------------------
(* JavaScript values that are neither strings nor plain objects.           *)

Undefined == [jsType |-> "undefined"]

Null == [jsType |-> "null"]

\* A number parseInt can return: NaN, or an integer.
NaN == [nan |-> TRUE, int |-> 0]

Number(n) == [nan |-> FALSE, int |-> n]

\* An object literal used as a mapping: its own keys in iteration order.
Mapping(keys) == [jsType |-> "object", keys |-> keys]

\* The [] default of _.get at line 34.
EmptyArray == [jsType |-> "array", keys |-> <<>>]

-----------------------------------------------------------------------------
(* String primitives.                                                      *)

Digits == <<"0", "1", "2", "3", "4", "5", "6", "7", "8", "9">>

HexDigits == Digits \o <<"a", "b", "c", "d", "e", "f">>

LowerLetters == <<"a", "b", "c", "d", "e", "f", "g", "h", "i", "j", "k", "l", "m", "n", "o", "p", "q", "r", "s", "t", "u", "v", "w", "x", "y", "z">>

UpperLetters == <<"A", "B", "C", "D", "E", "F", "G", "H", "I", "J", "K", "L", "M", "N", "O", "P", "Q", "R", "S", "T", "U", "V", "W", "X", "Y", "Z">>

Range(s) == {s[i] : i \in DOMAIN s}

IndexOf(c, s) == CHOOSE i \in DOMAIN s : s[i] = c

IsDigit(c) == c \in Range(Digits)

DigitValue(c) == IndexOf(c, Digits) - 1

\* String.prototype.toUpperCase, character by character.
ToUpperCase(s) ==
    [i \in DOMAIN s |-> IF s[i] \in Range(LowerLetters) THEN UpperLetters[IndexOf(s[i], LowerLetters)] ELSE s[i]]

\* String.prototype.toLowerCase, character by character.
ToLowerCase(s) ==
    [i \in DOMAIN s |-> IF s[i] \in Range(UpperLetters) THEN LowerLetters[IndexOf(s[i], UpperLetters)] ELSE s[i]]

\* String.prototype.split(sep) for a one-character separator.
RECURSIVE Split(_, _)
Split(s, sep) ==
    IF \A i \in DOMAIN s : s[i] # sep
    THEN <<s>>
    ELSE LET i == CHOOSE k \in DOMAIN s : s[k] = sep /\ \A j \in 1..(k - 1) : s[j] # sep
         IN  <<SubSeq(s, 1, i - 1)>> \o Split(SubSeq(s, i + 1, Len(s)), sep)

\* The value of a run of decimal digits.
RECURSIVE DigitsValue(_)
DigitsValue(ds) ==
    IF ds = <<>> THEN 0
    ELSE 10 * DigitsValue(SubSeq(ds, 1, Len(ds) - 1)) + DigitValue(ds[Len(ds)])

\* The longest prefix of s made of decimal digits.
RECURSIVE DigitPrefix(_)
DigitPrefix(s) ==
    IF s = <<>> \/ ~IsDigit(s[1]) THEN <<>>
    ELSE <<s[1]>> \o DigitPrefix(Tail(s))

RECURSIVE TrimLeft(_)
TrimLeft(s) ==
    IF s # <<>> /\ s[1] = " " THEN TrimLeft(Tail(s)) ELSE s

\* parseInt(s, 10): leading white space, an optional sign, then the longest
\* run of digits; NaN when there is no digit.
ParseInt(s) ==
    LET t    == TrimLeft(s)
        neg  == t # <<>> /\ t[1] = "-"
        body == IF t # <<>> /\ t[1] \in {"-", "+"} THEN Tail(t) ELSE t
        ds   == DigitPrefix(body)
    IN  IF ds = <<>> THEN NaN
        ELSE IF neg THEN Number(0 - DigitsValue(ds)) ELSE Number(DigitsValue(ds))

IsNaN(v) == v.nan

\* Number.prototype.toString(radix) for a natural number.
RECURSIVE NatToString(_, _)
NatToString(n, radix) ==
    IF n < radix THEN <<HexDigits[n + 1]>>
    ELSE NatToString(n \div radix, radix) \o <<HexDigits[(n % radix) + 1]>>

\* The string an integer becomes when concatenated with a string.
NumberToString(n) ==
    IF n < 0 THEN <<"-">> \o NatToString(0 - n, 10) ELSE NatToString(n, 10)

\* String.prototype.substring(start).
Substring(s, start) == SubSeq(s, start + 1, Len(s))

-----------------------------------------------------------------------------
(* lodash helpers used by the service.                                     *)

\* baseGet: walks the path, undefined as soon as a link is missing.
RECURSIVE BaseGet(_, _)
BaseGet(object, path) ==
    IF path = <<>> THEN object
    ELSE IF path[1] \in DOMAIN object THEN BaseGet(object[path[1]], Tail(path))
    ELSE Undefined

\* _.get(object, path, defaultValue): the default replaces only undefined.
LodashGet(object, path, defaultValue) ==
    LET r == BaseGet(object, path)
    IN  IF r = Undefined THEN defaultValue ELSE r

\* The left operand of || at line 33 is kept when it is truthy: every object
\* (an empty one too) is truthy, undefined and null are not.
IsTruthy(v) == v \notin {Undefined, Null}

\* The keys _.each visits: the own keys of an object in iteration order,
\* none for null, undefined or the empty array.
OwnKeys(collection) ==
    IF "keys" \in DOMAIN collection THEN collection.keys ELSE <<>>

\* _.assignWith(object, source) without a customizer assigns like _.assign:
\* source's keys are written onto object.
AssignWith(object, source) == source @@ object

-----------------------------------------------------------------------------
(* BuilderAppService, lines 11-255.                                        *)

Tcp == <<"t", "c", "p">>

Master == <<"m", "a", "s", "t", "e", "r">>

LatestSuffix == <<":", "l", "a", "t", "e", "s", "t">>

Dash == <<"-">>

\* 0x10000 at line 41.
S4Scale == 65536

\* s4 (lines 40-42); random16 is Math.floor(Math.random() * 0x10000), so
\* that Math.floor((1 + Math.random()) * 0x10000) = 0x10000 + random16.
s4(random16) == Substring(NatToString(S4Scale + random16, 16), 1)

\* generateSecret (lines 38-44): four s4 groups from four draws.
generateSecret(draws) == s4(draws[1]) \o s4(draws[2]) \o s4(draws[3]) \o s4(draws[4])

\* this.Logger.warn(...) at line 57.  The iteratee is a function expression
\* that lodash calls without a receiver, and the file is an ES module (strict
\* code), so `this` is undefined there and reading this.Logger raises a
\* TypeError before anything is logged; the class declares no Logger either.
LoggerWarn(acc, message) ==
    [acc EXCEPT !.threw = TRUE, !.error = "TypeError"]

\* The iteratee of _.each (lines 49-64), applied to one key.
Iteratee(acc, key) ==
    LET split == Split(key, "/")
        parts == IF Len(split) = 1 THEN Append(split, Tcp) ELSE split
        containerPort == ParseInt(parts[1])
    IN  IF IsNaN(containerPort)
        THEN LoggerWarn(acc, parts[1])
        ELSE [acc EXCEPT !.ports = Append(@, [containerPort |-> containerPort.int, protocol |-> ToUpperCase(parts[2])])]

\* _.each (line 49): the keys in iteration order; an exception ends the loop.
RECURSIVE Each(_, _)
Each(keys, acc) ==
    IF keys = <<>> \/ acc.threw THEN acc
    ELSE Each(Tail(keys), Iteratee(acc, Head(keys)))

\* parsePortsFromSpec (lines 47-67).
parsePortsFromSpec(spec) ==
    Each(OwnKeys(spec), [ports |-> <<>>, warnings |-> <<>>, threw |-> FALSE, error |-> "none"])

\* Mutant of getPortSpec: an empty Config.ExposedPorts counts as missing.
getPortSpecEmptyIsFalsy(imageStreamTag) ==
    LET image == BaseGet(imageStreamTag, <<"image">>)
        first == LodashGet(image, <<"dockerImageMetadata", "Config", "ExposedPorts">>, Undefined)
    IN  IF IsTruthy(first) /\ OwnKeys(first) # <<>> THEN first
        ELSE LodashGet(image, <<"dockerImageMetadata", "ContainerConfig", "ExposedPorts">>, EmptyArray)

\* Mutant of getPortSpec: ContainerConfig is tried before Config.
getPortSpecContainerFirst(imageStreamTag) ==
    LET image == BaseGet(imageStreamTag, <<"image">>)
        first == LodashGet(image, <<"dockerImageMetadata", "ContainerConfig", "ExposedPorts">>, Undefined)
    IN  IF IsTruthy(first) THEN first
        ELSE LodashGet(image, <<"dockerImageMetadata", "Config", "ExposedPorts">>, EmptyArray)

\* The portSpec local of getPorts (lines 32-34).
getPortSpec(imageStreamTag) ==
    LET image == BaseGet(imageStreamTag, <<"image">>)
        first == LodashGet(image, <<"dockerImageMetadata", "Config", "ExposedPorts">>, Undefined)
    IN  IF IsTruthy(first) THEN first
        ELSE LodashGet(image, <<"dockerImageMetadata", "ContainerConfig", "ExposedPorts">>, EmptyArray)

\* getPorts (lines 31-36).
getPorts(imageStreamTag) == parsePortsFromSpec(getPortSpec(imageStreamTag))

\* getAnnotations (lines 69-73).
getAnnotations == "openshift.io/generated-by" :> "OpenShiftWebConsole"

\* Mutant of getLabels: the image name instead of the application name.
getLabelsImageName(cfg) == [app |-> cfg.name \o LatestSuffix]

\* getLabels (lines 75-79).
getLabels(cfg) == [app |-> cfg.name]

\* getPortName (lines 81-84).
getPortName(port) ==
    ToLowerCase(NumberToString(port.containerPort) \o Dash \o port.protocol)

\* The metadata block every constructor writes.
Metadata(cfg) ==
    [name |-> cfg.name, labels |-> getLabels(cfg), annotations |-> getAnnotations]

\* Mutant of makeRoute: the route targets the port number, not its name.
makeRouteByNumber(cfg, port) ==
    [kind |-> "Route",
     apiVersion |-> "v1",
     metadata |-> Metadata(cfg),
     spec |-> [to |-> [kind |-> "Service", name |-> cfg.name],
               port |-> [targetPort |-> NumberToString(port.containerPort)],
               wildcardPolicy |-> "None"]]

\* makeRoute (lines 86-111).
makeRoute(cfg, port) ==
    [kind |-> "Route",
     apiVersion |-> "v1",
     metadata |-> Metadata(cfg),
     spec |-> [to |-> [kind |-> "Service", name |-> cfg.name],
               port |-> [targetPort |-> getPortName(port)],
               wildcardPolicy |-> "None"]]

\* makeService (lines 113-134).
makeService(cfg, port) ==
    [kind |-> "Service",
     apiVersion |-> "v1",
     metadata |-> Metadata(cfg),
     spec |-> [selector |-> [deploymentconfig |-> cfg.name],
               ports |-> <<[port |-> port.containerPort,
                            targetPort |-> port.containerPort,
                            protocol |-> port.protocol,
                            name |-> getPortName(port)]>>]]

\* Mutant of Containers: the container carries the first port only.
ContainersFirstPortOnly(cfg, ports) ==
    <<[name |-> cfg.name,
       image |-> cfg.name \o LatestSuffix,
       ports |-> IF ports = <<>> THEN <<>> ELSE <<Head(ports)>>,
       env |-> <<>>]>>

\* The containers of the pod template (lines 172-177).
Containers(cfg, ports) ==
    <<[name |-> cfg.name,
       image |-> cfg.name \o LatestSuffix,
       ports |-> ports,
       env |-> <<>>]>>

\* makeDeploymentConfig (lines 136-182).
makeDeploymentConfig(cfg, ports) ==
    [apiVersion |-> "v1",
     kind |-> "DeploymentConfig",
     metadata |-> Metadata(cfg),
     spec |-> [replicas |-> 1,
               selector |-> [deploymentconfig |-> cfg.name],
               triggers |-> <<[type |-> "ImageChange",
                               imageChangeParams |-> [automatic |-> TRUE,
                                                      containerNames |-> <<cfg.name>>,
                                                      from |-> [kind |-> "ImageStreamTag",
                                                                name |-> cfg.name \o LatestSuffix]]],
                              [type |-> "ConfigChange"]>>,
               template |-> [metadata |-> [labels |-> AssignWith([deploymentconfig |-> cfg.name], getLabels(cfg))],
                             spec |-> [containers |-> Containers(cfg, ports)]]]]

\* A string field of the config is truthy when present and non-empty.
StringTruthy(cfg, field) == field \in DOMAIN cfg /\ cfg[field] # <<>>

\* Mutant of BuildSource: contextDir is copied whenever the config has one,
\* an empty one too.
BuildSourceAnyContextDir(cfg) ==
    LET source == [git |-> [ref |-> IF StringTruthy(cfg, "gitRef") THEN cfg.gitRef ELSE Master,
                            uri |-> cfg.repository],
                   type |-> "Git"]
    IN  IF "contextDir" \in DOMAIN cfg
        THEN source @@ [contextDir |-> cfg.contextDir]
        ELSE source

\* spec.source of the BuildConfig (lines 200-206 and 237-239).
BuildSource(cfg) ==
    LET source == [git |-> [ref |-> IF StringTruthy(cfg, "gitRef") THEN cfg.gitRef ELSE Master,
                            uri |-> cfg.repository],
                   type |-> "Git"]
    IN  IF StringTruthy(cfg, "contextDir")
        THEN source @@ [contextDir |-> cfg.contextDir]
        ELSE source

\* Mutant of BuildTriggers: one generateSecret call whose token both
\* webhook triggers share.
BuildTriggersSharedSecret(draws) ==
    LET secret == generateSecret(SubSeq(draws, 1, 4))
    IN  <<[type |-> "ImageChange", imageChange |-> <<>>],
          [type |-> "ConfigChange"],
          [generic |-> [secret |-> secret], type |-> "Generic"],
          [github |-> [secret |-> secret], type |-> "GitHub"]>>

\* spec.triggers of the BuildConfig (lines 218-233): the first
\* generateSecret call consumes draws 1-4, the second draws 5-8.
BuildTriggers(draws) ==
    <<[type |-> "ImageChange", imageChange |-> <<>>],
      [type |-> "ConfigChange"],
      [generic |-> [secret |-> generateSecret(SubSeq(draws, 1, 4))], type |-> "Generic"],
      [github |-> [secret |-> generateSecret(SubSeq(draws, 5, 8))], type |-> "GitHub"]>>

\* makeBuildConfig (lines 184-242); draws are the eight Math.random results
\* its two generateSecret calls consume, in evaluation order.
makeBuildConfig(cfg, draws) ==
    [apiVersion |-> "v1",
     kind |-> "BuildConfig",
     metadata |-> Metadata(cfg),
     spec |-> [output |-> [to |-> [kind |-> "ImageStreamTag", name |-> cfg.name \o LatestSuffix]],
               source |-> BuildSource(cfg),
               strategy |-> [type |-> "Source",
                             sourceStrategy |-> [from |-> [kind |-> "ImageStreamTag",
                                                           name |-> cfg.imageStreamTag.metadata.name,
                                                           namespace |-> cfg.imageStreamTag.metadata.namespace],
                                                 env |-> <<>>]],
               triggers |-> BuildTriggers(draws)]]

\* makeImageStream (lines 244-254).
makeImageStream(cfg) ==
    [apiVersion |-> "v1", kind |-> "ImageStream", metadata |-> Metadata(cfg)]

\* makeAPIObjects (lines 12-29): the outcome of one call.
makeAPIObjects(cfg, draws) ==
    LET parsed == getPorts(cfg.imageStreamTag)
        ports  == parsed.ports
        objects == <<makeImageStream(cfg), makeBuildConfig(cfg, draws), makeDeploymentConfig(cfg, ports)>>
    IN  IF parsed.threw
        THEN [threw |-> TRUE, error |-> parsed.error, objects |-> <<>>, warnings |-> parsed.warnings, draws |-> <<>>]
        ELSE [threw |-> FALSE, error |-> "none", warnings |-> parsed.warnings, draws |-> draws,
              objects |-> IF ports # <<>>
                          THEN objects \o <<makeService(cfg, Head(ports)), makeRoute(cfg, Head(ports))>>
                          ELSE objects]

-----------------------------------------------------------------------------
(* Inputs.                                                                 *)

\* The longest exposed-ports mapping of Config.ExposedPorts that is tried.
MaxKeys == 2

\* "8080/tcp"
Key8080Tcp == <<"8", "0", "8", "0", "/", "t", "c", "p">>

\* "53/Udp"
Key53Udp == <<"5", "3", "/", "U", "d", "p">>

\* "443": one segment, and an integer-like key
Key443 == <<"4", "4", "3">>

\* "abc/tcp": the first segment is not a number
KeyAbcTcp == <<"a", "b", "c", "/", "t", "c", "p">>

PortKeys == {Key8080Tcp, Key53Udp, Key443, KeyAbcTcp}

\* An integer-like property name (a canonical array index).
IsArrayIndex(key) ==
    /\ key # <<>>
    /\ \A i \in DOMAIN key : IsDigit(key[i])
    /\ (Len(key) = 1 \/ key[1] # "0")

\* The order in which an object's own keys are visited (line 49): the
\* integer-like keys ascending, then the other keys as inserted.
IsIterationOrder(keys) ==
    /\ \A i, j \in DOMAIN keys : i < j => keys[i] # keys[j]
    /\ \A i, j \in DOMAIN keys : (i < j /\ IsArrayIndex(keys[j])) =>
           (IsArrayIndex(keys[i]) /\ DigitsValue(keys[i]) < DigitsValue(keys[j]))

KeyOrders(n) ==
    UNION {{keys \in [1..k -> PortKeys] : IsIterationOrder(keys)} : k \in 0..n}

\* What Config.ExposedPorts can hold: nothing (the key is absent), null, or
\* a mapping.
ConfigPortSpecs == {Undefined, Null} \cup {Mapping(keys) : keys \in KeyOrders(MaxKeys)}

\* What ContainerConfig.ExposedPorts can hold.
ContainerPortSpecs ==
    {Undefined, Null, Mapping(<<>>), Mapping(<<Key53Udp>>), Mapping(<<KeyAbcTcp>>), Mapping(<<Key443, Key8080Tcp>>)}

\* A Config or ContainerConfig block of the image metadata.
Block(exposedPorts) ==
    IF exposedPorts = Undefined THEN [User |-> "1001"]
    ELSE [User |-> "1001", ExposedPorts |-> exposedPorts]

TagMetadata == [name |-> <<"n", "o", "d", "e">>, namespace |-> <<"o", "p", "e", "n", "s", "h", "i", "f", "t">>]

ImageStreamTags ==
    {[metadata |-> TagMetadata]} \cup
    {[metadata |-> TagMetadata,
      image |-> [dockerImageMetadata |-> [Config |-> Block(c), ContainerConfig |-> Block(cc)]]] :
        c \in ConfigPortSpecs, cc \in ContainerPortSpecs}

Names == {<<"m", "y", "a", "p", "p">>, <<"W", "e", "b">>}

Repositories == {<<"r", ".", "g", "i", "t">>}

\* A present gitRef or contextDir: empty or not.
GitRefs == {<<>>, <<"d", "e", "v">>}

ContextDirs == {<<>>, <<"s", "u", "b">>}

\* IBuilderAppConfig (lines 3-9), with gitRef and contextDir present or not.
Configs ==
    [name : Names, repository : Repositories, imageStreamTag : ImageStreamTags] \cup
    [name : Names, repository : Repositories, imageStreamTag : ImageStreamTags, gitRef : GitRefs] \cup
    [name : Names, repository : Repositories, imageStreamTag : ImageStreamTags, contextDir : ContextDirs] \cup
    [name : Names, repository : Repositories, imageStreamTag : ImageStreamTags, gitRef : GitRefs, contextDir : ContextDirs]

\* Math.floor(Math.random() * 0x10000) of one draw: 0x0000 or 0xabcd.
RandomDraws == {0, 43981}

-----------------------------------------------------------------------------
(* The state machine: a caller holds a config and calls one of the two     *)
(* public operations on it.                                                *)

Init ==
    /\ config \in Configs
    /\ pc = "ready"
    /\ op = "none"
    /\ portSpec = Undefined
    /\ result = <<>>
    /\ error = "none"
    /\ warnings = <<>>
    /\ randomLog = <<>>

\* A call of makeAPIObjects(config) (lines 12-29).
MakeAPIObjects ==
    /\ pc = "ready"
    /\ \E draws \in [1..8 -> RandomDraws] :
          \E out \in {makeAPIObjects(config, draws)} :
              /\ pc' = IF out.threw THEN "threw" ELSE "returned"
              /\ result' = out.objects
              /\ error' = out.error
              /\ warnings' = out.warnings
              /\ randomLog' = out.draws
    /\ op' = "makeAPIObjects"
    /\ portSpec' = getPortSpec(config.imageStreamTag)
    /\ UNCHANGED config

\* A call of getPorts(config.imageStreamTag) (lines 31-36).
GetPorts ==
    /\ pc = "ready"
    /\ \E out \in {getPorts(config.imageStreamTag)} :
          /\ pc' = IF out.threw THEN "threw" ELSE "returned"
          /\ result' = IF out.threw THEN <<>> ELSE out.ports
          /\ error' = out.error
          /\ warnings' = out.warnings
    /\ op' = "getPorts"
    /\ portSpec' = getPortSpec(config.imageStreamTag)
    /\ UNCHANGED <<config, randomLog>>

Next == MakeAPIObjects \/ GetPorts

Spec == Init /\ [][Next]_vars

-----------------------------------------------------------------------------
(* Vocabulary of the properties, written from the inputs alone.            *)

Called(operation) == op = operation /\ pc # "ready"

Returned(operation) == op = operation /\ pc = "returned"

\* Config.ExposedPorts and ContainerConfig.ExposedPorts of the config's
\* image, Undefined when a link of the path is missing.
ExposedPortsOf(cfg, block) ==
    IF "image" \notin DOMAIN cfg.imageStreamTag THEN Undefined
    ELSE LET b == cfg.imageStreamTag.image.dockerImageMetadata[block]
         IN  IF "ExposedPorts" \in DOMAIN b THEN b.ExposedPorts ELSE Undefined

\* The keys of the exposed-ports mapping the documentation says is read.
ExposedKeys(cfg) ==
    LET c  == ExposedPortsOf(cfg, "Config")
        cc == ExposedPortsOf(cfg, "ContainerConfig")
    IN  IF c \notin {Undefined, Null} THEN c.keys
        ELSE IF cc \notin {Undefined, Null} THEN cc.keys
        ELSE <<>>

FirstSegment(key) == Split(key, "/")[1]

ValidKey(key) == ~ParseInt(FirstSegment(key)).nan

\* The Port a valid key stands for.
PortOf(key) ==
    [containerPort |-> ParseInt(FirstSegment(key)).int,
     protocol |-> IF Len(Split(key, "/")) = 1 THEN <<"T", "C", "P">> ELSE ToUpperCase(Split(key, "/")[2])]

\* The order-preserving image of the valid keys.
RECURSIVE PortsOf(_)
PortsOf(keys) ==
    IF keys = <<>> THEN <<>>
    ELSE (IF ValidKey(Head(keys)) THEN <<PortOf(Head(keys))>> ELSE <<>>) \o PortsOf(Tail(keys))

InvalidKeys(keys) == {i \in DOMAIN keys : ~ValidKey(keys[i])}

Kinds(objects) == [i \in DOMAIN objects |-> objects[i].kind]

\* "<containerPort>-<protocol>" in lower case.
PortName(port) == ToLowerCase(NumberToString(port.containerPort) \o <<"-">> \o port.protocol)

\* The four hexadecimal digits of a 16-bit draw.
Hex4(k) ==
    <<HexDigits[((k \div 4096) % 16) + 1], HexDigits[((k \div 256) % 16) + 1],
      HexDigits[((k \div 16) % 16) + 1], HexDigits[(k % 16) + 1]>>

Token(draws, from) == Hex4(draws[from]) \o Hex4(draws[from + 1]) \o Hex4(draws[from + 2]) \o Hex4(draws[from + 3])

-----------------------------------------------------------------------------
(* The claims.                                                             *)

\* C1: whenever the exposed-ports mapping has at least one valid port entry
\* (other entries, valid or not, may be present), makeAPIObjects returns
\* exactly the five objects ImageStream, BuildConfig, DeploymentConfig,
\* Service, Route in that order, Service and Route built from the first port.
C1_FiveObjectsForAnyValidPort ==
    (Called("makeAPIObjects") /\ PortsOf(ExposedKeys(config)) # <<>>) =>
        /\ pc = "returned"
        /\ Kinds(result) = <<"ImageStream", "BuildConfig", "DeploymentConfig", "Service", "Route">>
        /\ result[4].spec.ports[1].port = Head(PortsOf(ExposedKeys(config))).containerPort
        /\ result[4].spec.ports[1].protocol = Head(PortsOf(ExposedKeys(config))).protocol
        /\ result[5].spec.port.targetPort = PortName(Head(PortsOf(ExposedKeys(config))))

\* C2: whenever the exposed-ports mapping is absent or the one that is read
\* is empty, makeAPIObjects returns exactly the three objects ImageStream,
\* BuildConfig, DeploymentConfig in that order, without Service or Route.
C2_ThreeObjectsWithoutPorts ==
    (Called("makeAPIObjects") /\ ExposedKeys(config) = <<>>) =>
        /\ pc = "returned"
        /\ Kinds(result) = <<"ImageStream", "BuildConfig", "DeploymentConfig">>

\* C2 witness: makeAPIObjects returned for an empty Config.ExposedPorts
\* while ContainerConfig.ExposedPorts holds a valid port.
C2_Witness ==
    /\ Returned("makeAPIObjects")
    /\ ExposedPortsOf(config, "Config") = Mapping(<<>>)
    /\ ExposedPortsOf(config, "ContainerConfig") = Mapping(<<Key53Udp>>)
    /\ Len(result) = 3

\* C3: a key whose first segment is not a number is dropped with one
\* warning each, no error is raised and the operation still returns, the
\* remaining keys parsed.
C3_InvalidKeySkippedWithWarning ==
    (Called("getPorts") /\ InvalidKeys(ExposedKeys(config)) # {}) =>
        /\ pc = "returned"
        /\ error = "none"
        /\ Len(warnings) = Cardinality(InvalidKeys(ExposedKeys(config)))
        /\ result = PortsOf(ExposedKeys(config))

\* C4: for every exposed-ports mapping the parser's result is the
\* order-preserving image of the valid keys: one Port per valid key, with
\* the parsed integer and the upper-cased protocol ("TCP" by default).
C4_PortsAreImageOfValidKeys ==
    Called("getPorts") =>
        /\ pc = "returned"
        /\ result = PortsOf(ExposedKeys(config))

\* C5: getPorts reads Config.ExposedPorts when it is truthy (an empty
\* mapping too), otherwise ContainerConfig.ExposedPorts, otherwise an empty
\* collection; the ports it returns come from that one mapping alone.
C5_ConfigFirstThenContainerConfig ==
    (op # "none") =>
        /\ portSpec = (IF ExposedPortsOf(config, "Config") \notin {Undefined, Null}
                       THEN ExposedPortsOf(config, "Config")
                       ELSE IF ExposedPortsOf(config, "ContainerConfig") # Undefined
                            THEN ExposedPortsOf(config, "ContainerConfig")
                            ELSE EmptyArray)
        /\ Returned("getPorts") =>
              result = PortsOf(IF "keys" \in DOMAIN portSpec THEN portSpec.keys ELSE <<>>)

\* C5 witness: getPorts returned no ports from an empty Config.ExposedPorts
\* although ContainerConfig.ExposedPorts holds valid ports.
C5_Witness ==
    /\ Returned("getPorts")
    /\ ExposedPortsOf(config, "Config") = Mapping(<<>>)
    /\ ExposedPortsOf(config, "ContainerConfig") = Mapping(<<Key443, Key8080Tcp>>)
    /\ portSpec = Mapping(<<>>)
    /\ result = <<>>

\* C6: every returned object carries the label app = config.name and the
\* annotation openshift.io/generated-by = OpenShiftWebConsole.
C6_LabelsAndAnnotations ==
    Returned("makeAPIObjects") =>
        \A i \in DOMAIN result :
            /\ result[i].metadata.labels.app = config.name
            /\ result[i].metadata.annotations["openshift.io/generated-by"] = "OpenShiftWebConsole"

\* C6 witness: a five-object result.
C6_Witness ==
    /\ Returned("makeAPIObjects")
    /\ Len(result) = 5
    /\ result[5].metadata.labels.app = <<"W", "e", "b">>

\* C7: the Service's single port entry is named
\* lowercase(containerPort + "-" + protocol) of the first parsed port, with
\* port and targetPort that containerPort, and the Route's targetPort is
\* the same name string.
C7_ServiceAndRouteAgreeOnPortName ==
    (Returned("makeAPIObjects") /\ Len(result) = 5) =>
        LET first == Head(PortsOf(ExposedKeys(config)))
        IN  /\ Len(result[4].spec.ports) = 1
            /\ result[4].spec.ports[1].name = PortName(first)
            /\ result[4].spec.ports[1].port = first.containerPort
            /\ result[4].spec.ports[1].targetPort = first.containerPort
            /\ result[5].spec.port.targetPort = PortName(first)

\* C7 witness: "53/Udp" first gives the name "53-udp" in both objects.
C7_Witness ==
    /\ Returned("makeAPIObjects")
    /\ Len(result) = 5
    /\ Head(ExposedKeys(config)) = Key53Udp
    /\ result[4].spec.ports[1].name = <<"5", "3", "-", "u", "d", "p">>
    /\ result[5].spec.port.targetPort = <<"5", "3", "-", "u", "d", "p">>

\* C8 as stated: the Generic and GitHub secrets come from two
\* generateSecret calls and are never the same token.
C8_SecretsNeverEqual ==
    Returned("makeAPIObjects") =>
        /\ Len(randomLog) = 8
        /\ result[2].spec.triggers[3].generic.secret # result[2].spec.triggers[4].github.secret

\* C8 amended: the Generic secret is the 16-hex-digit token of the first
\* generateSecret call and the GitHub secret that of a second, separate
\* call, each built from its own four random draws; nothing makes them differ.
C8_SecretsFromSeparateCalls ==
    Returned("makeAPIObjects") =>
        /\ Len(randomLog) = 8
        /\ result[2].spec.triggers[3].generic.secret = Token(randomLog, 1)
        /\ result[2].spec.triggers[4].github.secret = Token(randomLog, 5)

\* C8 witness: a BuildConfig whose two secrets differ.
C8_Witness ==
    /\ Returned("makeAPIObjects")
    /\ Len(result[2].spec.triggers[3].generic.secret) = 16
    /\ result[2].spec.triggers[3].generic.secret # result[2].spec.triggers[4].github.secret

\* C9: the BuildConfig's spec.source is {git: {ref, uri: repository},
\* type: "Git"}, ref being gitRef when non-empty and "master" otherwise,
\* with a contextDir key exactly when config.contextDir is non-empty.
C9_BuildSource ==
    Returned("makeAPIObjects") =>
        LET source == result[2].spec.source
            hasRef == "gitRef" \in DOMAIN config /\ Len(config.gitRef) > 0
            hasDir == "contextDir" \in DOMAIN config /\ Len(config.contextDir) > 0
        IN  /\ source.type = "Git"
            /\ source.git = [ref |-> IF hasRef THEN config.gitRef ELSE <<"m", "a", "s", "t", "e", "r">>,
                             uri |-> config.repository]
            /\ DOMAIN source = (IF hasDir THEN {"git", "type", "contextDir"} ELSE {"git", "type"})
            /\ hasDir => source.contextDir = config.contextDir

\* C9 witness: gitRef and contextDir both present and empty.
C9_Witness ==
    /\ Returned("makeAPIObjects")
    /\ "gitRef" \in DOMAIN config /\ config.gitRef = <<>>
    /\ "contextDir" \in DOMAIN config /\ config.contextDir = <<>>
    /\ result[2].spec.source.git.ref = <<"m", "a", "s", "t", "e", "r">>
    /\ "contextDir" \notin DOMAIN result[2].spec.source

\* C10: the pod template labels are exactly {deploymentconfig: name,
\* app: name}, so they contain the DeploymentConfig's selector and the
\* Service's selector, and the single container carries all parsed ports.
C10_PodTemplate ==
    Returned("makeAPIObjects") =>
        LET dc     == result[3]
            labels == dc.spec.template.metadata.labels
        IN  /\ DOMAIN labels = {"deploymentconfig", "app"}
            /\ labels.deploymentconfig = config.name
            /\ labels.app = config.name
            /\ dc.spec.selector = [deploymentconfig |-> config.name]
            /\ Len(result) = 5 => result[4].spec.selector = [deploymentconfig |-> config.name]
            /\ Len(dc.spec.template.spec.containers) = 1
            /\ dc.spec.template.spec.containers[1].ports = PortsOf(ExposedKeys(config))

\* C10 witness: a container with two ports.
C10_Witness ==
    /\ Returned("makeAPIObjects")
    /\ Len(result) = 5
    /\ Len(result[3].spec.template.spec.containers[1].ports) = 2

====
